---- MODULE Spec2Model ----
(***************************************************************************)
(* A model of the COREP CR1 assistant: the regulatory retriever            *)
(* (src/retrieval/retriever.py), the document processor                    *)
(* (src/retrieval/document_processor.py), the CR1 validator                *)
(* (src/validation/validator.py, src/schemas.py), the generator            *)
(* (src/generation/llm_generator.py) and the Streamlit application         *)
(* (src/ui/app.py).  Each component has its own specification over the     *)
(* same variables.                                                         *)
(*                                                                         *)
(* Text (chunk text, source labels, formatted context) is a sequence of    *)
(* one-character strings.  Embedding vectors are integer triples whose     *)
(* Euclidean norm is an integer, and a cosine similarity is kept in        *)
(* hundredths (80 stands for 0.80), so that every score below is exact.    *)
(* Money is kept in hundredths of the reporting currency (1 stands for     *)
(* 0.01), so that the validator's tolerance of 0.01 is one unit; that      *)
(* arithmetic is exact.  SpecFloat alone carries out calculate_rwa and the *)
(* RWA check as Python does, in binary floating point.                     *)
(***************************************************************************)
EXTENDS Integers, Sequences, FiniteSets, TLC

VARIABLES
    chunks,       \* RegulatoryRetriever.chunks
    embeddings,   \* RegulatoryRetriever.embeddings
    argsortTie,   \* the order in which this build's np.argsort leaves equal keys
    lastSearch,   \* the latest search call and the value it returned
    procChunks,   \* DocumentProcessor.chunks
    errors,       \* CR1Validator.errors
    warnings,     \* CR1Validator.warnings
    ret,          \* the last call: its operation, arguments and returned value
    sessionRows   \* st.session_state.rows of the Streamlit session

vars ==
    <<chunks, embeddings, argsortTie, lastSearch, procChunks, errors, warnings, ret,
      sessionRows>>

(***************************************************************************)
(* Bounds of the model.                                                    *)
(***************************************************************************)
MaxCorpus == 3     \* the retriever loads at most this many chunks
MaxTopK == 4       \* search is called with top_k in MinTopK .. MaxTopK
MinTopK == 0 - 2
MaxDocs == 2       \* chunk_documents is given a corpus of at most this many entries
MaxRows == 2       \* validate_template is given a template of at most this many rows
MaxWarnings == 2   \* no call is made that would take CR1Validator.warnings beyond this

(***************************************************************************)
(* Generic helpers.                                                        *)
(***************************************************************************)
Min(a, b) == IF a < b THEN a ELSE b
Max(a, b) == IF a > b THEN a ELSE b
Abs(x) == IF x < 0 THEN 0 - x ELSE x

Range(s) == {s[i] : i \in DOMAIN s}

SeqsUpTo(S, n) == UNION {[1..m -> S] : m \in 0..n}

Orderings(n) == {p \in [1..n -> 1..n] : \A i, j \in 1..n : p[i] = p[j] => i = j}

(***************************************************************************)
(* The loaded corpus.  KnownChunks are the chunks a pickle file may hold,  *)
(* in the shape DocumentProcessor.chunk_documents gives them.              *)
(***************************************************************************)
Chunk(text, article, source) ==
    [text |-> text, metadata |-> [article_number |-> article, source |-> source]]

KnownChunks ==
    { Chunk(<<"c", "o">>, 122, <<"A", "1">>),
      Chunk(<<"m">>, 124, <<"B">>) }

Queries == { <<"q", "c">>, <<"n">> }

(***************************************************************************)
(* SentenceTransformer.encode: a fixed, deterministic map from a text to   *)
(* a vector of fixed length.  The first query is nearer to the first       *)
(* known chunk than to the second; the second query is orthogonal to both, *)
(* so that distinct chunks have equal similarity to it.                    *)
(***************************************************************************)
Encode(text) ==
    CASE text = <<"c", "o">> -> <<3, 4, 0>>
      [] text = <<"m">>      -> <<4, 3, 0>>
      [] text = <<"q", "c">> -> <<0, 1, 0>>
      [] text = <<"n">>      -> <<0, 0, 1>>
      [] OTHER               -> <<1, 0, 0>>

Dot(u, v) == u[1] * v[1] + u[2] * v[2] + u[3] * v[3]

\* np.linalg.norm, for vectors whose norm is an integer
Norm(u) == CHOOSE r \in 0..Dot(u, u) : r * r = Dot(u, u)

\* np.dot(q, d) / (norm(q) * norm(d)), in hundredths
CosineSimilarity(q, d) == (100 * Dot(q, d)) \div (Norm(q) * Norm(d))

(***************************************************************************)
(* np.argsort(similarities): the indices 1..n in ascending order of their  *)
(* similarity.  The default kind is not a stable sort, so where two        *)
(* similarities are equal the order is the build's: of two indices with    *)
(* equal keys, this build puts first the one with the smaller argsortTie.  *)
(***************************************************************************)
ArgsortBefore(similarities, tie, a, b) ==
    \/ similarities[a] < similarities[b]
    \/ /\ similarities[a] = similarities[b]
       /\ tie[a] < tie[b]

RECURSIVE ArgsortOf(_, _, _)
ArgsortOf(similarities, tie, todo) ==
    IF todo = {} THEN <<>>
    ELSE LET least == CHOOSE a \in todo :
                          \A b \in todo \ {a} : ArgsortBefore(similarities, tie, a, b)
         IN  <<least>> \o ArgsortOf(similarities, tie, todo \ {least})

Argsort(similarities, tie) == ArgsortOf(similarities, tie, DOMAIN similarities)

\* s[start:] of a Python sequence, start being a 0-based index that counts
\* from the end when it is negative, and is clipped to the sequence
SliceFrom(s, start) ==
    LET n == Len(s)
        from == IF start < 0 THEN Max(n + start, 0) ELSE Min(start, n)
    IN  SubSeq(s, from + 1, n)

\* s[::-1]
Reversed(s) == [i \in 1..Len(s) |-> s[Len(s) + 1 - i]]

(***************************************************************************)
(* RegulatoryRetriever.search                                              *)
(***************************************************************************)
RECURSIVE SimilaritiesOf(_, _)
SimilaritiesOf(query_embedding, embs) ==
    IF embs = <<>> THEN <<>>
    ELSE <<CosineSimilarity(query_embedding, Head(embs))>>
             \o SimilaritiesOf(query_embedding, Tail(embs))

Similarities(embs, query) == SimilaritiesOf(Encode(query), embs)

\* search without the [::-1] that turns the ascending order around
TopIndicesAscending(similarities, tie, top_k) ==
    SliceFrom(Argsort(similarities, tie), 0 - top_k)

TopIndices(similarities, tie, top_k) ==
    Reversed(SliceFrom(Argsort(similarities, tie), 0 - top_k))

Results(cs, similarities, top_indices) ==
    [i \in 1..Len(top_indices) |->
        [text |-> cs[top_indices[i]].text,
         article_number |-> cs[top_indices[i]].metadata.article_number,
         source |-> cs[top_indices[i]].metadata.source,
         relevance_score |-> similarities[top_indices[i]]]]

NoSearch == [called |-> FALSE]

\* search that sorts self.chunks in place by similarity
SearchSortingInPlace(query, top_k) ==
    \E similarities \in {Similarities(embeddings, query)} :
    \E order \in {Argsort(similarities, argsortTie)} :
    \E top_indices \in {TopIndices(similarities, argsortTie, top_k)} :
    \E value \in {Results(chunks, similarities, top_indices)} :
        /\ ret' = [op |-> "search", query |-> query, top_k |-> top_k,
                   error |-> "none", value |-> value, top_indices |-> top_indices]
        /\ lastSearch' = [called |-> TRUE, query |-> query, top_k |-> top_k,
                          value |-> value]
        /\ chunks' = [i \in 1..Len(chunks) |-> chunks[order[i]]]
        /\ UNCHANGED <<embeddings, argsortTie, procChunks, errors, warnings, sessionRows>>

\* The call returns `value`; top_indices, the indices search took the results
\* from, is kept beside it.
Search(query, top_k) ==
    \E similarities \in {Similarities(embeddings, query)} :
    \E top_indices \in {TopIndices(similarities, argsortTie, top_k)} :
    \E value \in {Results(chunks, similarities, top_indices)} :
        /\ ret' = [op |-> "search", query |-> query, top_k |-> top_k,
                   error |-> "none", value |-> value, top_indices |-> top_indices]
        /\ lastSearch' = [called |-> TRUE, query |-> query, top_k |-> top_k,
                          value |-> value]
        /\ UNCHANGED <<chunks, embeddings, argsortTie, procChunks, errors, warnings, sessionRows>>

(***************************************************************************)
(* RegulatoryRetriever.format_context, applied (as generate_cr1_row does)  *)
(* to the results the last search returned.                                *)
(***************************************************************************)
\* a context part that keeps only the first character of the text
ContextPartTruncated(result) ==
    <<"[">> \o result.source \o <<"]", "\n">> \o SubSeq(result.text, 1, 1) \o <<"\n">>

ContextPart(result) == <<"[">> \o result.source \o <<"]", "\n">> \o result.text \o <<"\n">>

RECURSIVE Join(_, _)
Join(sep, parts) ==
    IF parts = <<>> THEN <<>>
    ELSE IF Len(parts) = 1 THEN parts[1]
    ELSE parts[1] \o sep \o Join(sep, Tail(parts))

format_context(results) ==
    Join(<<"\n">>, [i \in 1..Len(results) |-> ContextPart(results[i])])

FormatContext ==
    /\ ret.op = "search"
    /\ ret' = [op |-> "format_context", results |-> ret.value,
               error |-> "none", value |-> format_context(ret.value)]
    /\ UNCHANGED <<chunks, embeddings, argsortTie, lastSearch, procChunks, errors, warnings, sessionRows>>

(***************************************************************************)
(* The retriever after construction: the chunks of the pickle file and one *)
(* embedding per chunk; nothing has been called yet.                       *)
(***************************************************************************)
NoCall == [op |-> "none", error |-> "none"]

InitRetriever ==
    /\ chunks \in SeqsUpTo(KnownChunks, MaxCorpus)
    /\ embeddings = [i \in 1..Len(chunks) |-> Encode(chunks[i].text)]
    /\ argsortTie \in Orderings(Len(chunks))
    /\ lastSearch = NoSearch
    /\ procChunks = <<>>
    /\ errors = <<>>
    /\ warnings = <<>>
    /\ ret = NoCall
    /\ sessionRows = <<>>

NextRetriever ==
    \/ \E query \in Queries, top_k \in MinTopK..MaxTopK : Search(query, top_k)
    \/ FormatContext

SpecRetriever == InitRetriever /\ [][NextRetriever]_vars

(***************************************************************************)
(* DocumentProcessor.  A corpus entry is a JSON object, here a record; the *)
(* known entries are a whole one, a whole one with a further field, and    *)
(* one lacking each of the fields chunk_documents reads.                   *)
(***************************************************************************)
KnownDocs ==
    { [content |-> <<"c", "o">>, article_number |-> 122, source |-> <<"A", "1">>],
      [content |-> <<"m">>, article_number |-> 124, source |-> <<"B">>,
       title |-> <<"T">>],
      [article_number |-> 114, source |-> <<"B">>],
      [content |-> <<"g">>, source |-> <<"B">>],
      [content |-> <<"g">>, article_number |-> 114] }

\* the first key, in the order the dict literal reads them, that doc lacks
MissingKey(doc) ==
    IF "content" \notin DOMAIN doc THEN "content"
    ELSE IF "article_number" \notin DOMAIN doc THEN "article_number"
    ELSE IF "source" \notin DOMAIN doc THEN "source"
    ELSE "none"

\* The loop of chunk_documents over the entries still to do: the local list
\* it has built, and the KeyError that stopped it, if one did.
RECURSIVE ChunkLoop(_, _)
ChunkLoop(todo, built) ==
    IF todo = <<>> THEN [error |-> "none", chunks |-> built]
    ELSE IF MissingKey(Head(todo)) # "none"
         THEN [error |-> <<"KeyError", MissingKey(Head(todo))>>, chunks |-> built]
    ELSE ChunkLoop(Tail(todo),
                   Append(built, Chunk(Head(todo).content,
                                       Head(todo).article_number,
                                       Head(todo).source)))

\* chunk_documents that appends to self.chunks as it goes
ChunkDocumentsInPlace(corpus) ==
    \E done \in {ChunkLoop(corpus, <<>>)} :
        /\ procChunks' = done.chunks
        /\ ret' = IF done.error = "none"
                  THEN [op |-> "chunk_documents", corpus |-> corpus,
                        error |-> "none", value |-> done.chunks]
                  ELSE [op |-> "chunk_documents", corpus |-> corpus,
                        error |-> done.error]
        /\ UNCHANGED <<chunks, embeddings, argsortTie, lastSearch, errors, warnings, sessionRows>>

ChunkDocuments(corpus) ==
    \E done \in {ChunkLoop(corpus, <<>>)} :
        IF done.error = "none"
        THEN /\ procChunks' = done.chunks
             /\ ret' = [op |-> "chunk_documents", corpus |-> corpus,
                        error |-> "none", value |-> done.chunks]
             /\ UNCHANGED <<chunks, embeddings, argsortTie, lastSearch, errors, warnings, sessionRows>>
        ELSE /\ ret' = [op |-> "chunk_documents", corpus |-> corpus,
                        error |-> done.error]
             /\ UNCHANGED <<chunks, embeddings, argsortTie, lastSearch, procChunks,
                            errors, warnings, sessionRows>>

\* The processor after construction: no chunks.  No retriever is built.
InitProcessor ==
    /\ chunks = <<>>
    /\ embeddings = <<>>
    /\ argsortTie = <<>>
    /\ lastSearch = NoSearch
    /\ procChunks = <<>>
    /\ errors = <<>>
    /\ warnings = <<>>
    /\ ret = NoCall
    /\ sessionRows = <<>>

NextProcessor == \E corpus \in SeqsUpTo(KnownDocs, MaxDocs) : ChunkDocuments(corpus)

SpecProcessor == InitProcessor /\ [][NextProcessor]_vars

(***************************************************************************)
(* CR1Row, CR1Template and CR1Validator.  Amounts are in hundredths of a   *)
(* unit of money.  A message is the tuple of its fixed text and the values *)
(* formatted into it.                                                      *)
(***************************************************************************)
Tolerance == 1          \* 0.01
MaxRiskWeight == 1250

Row(class, exposure, weight, rwa, references) ==
    [exposure_class |-> class,
     original_exposure_value |-> exposure,
     risk_weight_percent |-> weight,
     risk_weighted_assets |-> rwa,
     regulatory_references |-> references]

Reference122 == [article_number |-> 122, source |-> <<"A", "1">>, excerpt |-> <<"c", "o">>]

ReferenceLists == { <<>>, <<Reference122>> }

\* The rows validate_row is given: exposures below, at and above zero, risk
\* weights at and beyond both ends of the range, and a declared RWA at, near
\* and away from the product of the two.
RowExposures == {0 - 100, 0, 50}
RowWeights == {0 - 1, 0, 35, MaxRiskWeight, MaxRiskWeight + 1}
RowRwaOffsets == {0 - 2, 0 - 1, 0, 2}

RowInputs ==
    { Row("Corporates", e, w, ((e * w) \div 100) + d, refs) :
        e \in RowExposures, w \in RowWeights, d \in RowRwaOffsets, refs \in ReferenceLists }

\* The rows of the templates validate_template is given: one that breaks no
\* rule, one that breaks no rule but cites nothing, one that breaks all three
\* and cites nothing.
TemplateRows ==
    { Row("Corporates", 100, 100, 100, <<Reference122>>),
      Row("Corporates", 50, 35, 18, <<>>),
      Row("Retail", 0, MaxRiskWeight + 1, 0 - 2, <<>>) }

RECURSIVE SumOver(_, _)
SumOver(rows, field) ==
    IF rows = <<>> THEN 0 ELSE Head(rows)[field] + SumOver(Tail(rows), field)

\* The declared totals of a template differ from the sums over its rows by
\* one of these pairs: nothing, the tolerance, more than the tolerance in
\* either direction, and one whole unit of money.
TotalOffsets ==
    { <<0, 0>>, <<Tolerance, 0 - Tolerance>>, <<2, 0>>, <<0, 0 - 2>>, <<0 - 2, 2>>,
      <<0, 0 - 100>> }

Template(rows, total_exposure, total_rwa) ==
    [rows |-> rows, total_exposure |-> total_exposure, total_rwa |-> total_rwa]

TemplateInputs ==
    { Template(rows,
               SumOver(rows, "original_exposure_value") + off[1],
               SumOver(rows, "risk_weighted_assets") + off[2]) :
        rows \in SeqsUpTo(TemplateRows, MaxRows), off \in TotalOffsets }

\* CR1Row.calculate_rwa: exposure * (risk weight / 100).  The product is kept
\* undivided, that is in hundredths of the unit of the amounts, so that it is
\* exact; Hundredths brings an amount to the same unit.
calculate_rwa(row) == row.original_exposure_value * row.risk_weight_percent

Hundredths(amount) == 100 * amount

\* the RWA check of validate_row without the abs()
RwaMismatchOneSided(row) ==
    Hundredths(row.risk_weighted_assets) - calculate_rwa(row) > Hundredths(Tolerance)

\* abs(row.risk_weighted_assets - expected_rwa) > 0.01
RwaMismatch(row) ==
    Abs(Hundredths(row.risk_weighted_assets) - calculate_rwa(row)) > Hundredths(Tolerance)

\* the list validate_row returns
RowErrors(row) ==
    (IF row.original_exposure_value <= 0
     THEN << <<"Invalid exposure value", row.original_exposure_value>> >>
     ELSE <<>>)
    \o
    (IF row.risk_weight_percent < 0 \/ row.risk_weight_percent > MaxRiskWeight
     THEN << <<"Invalid risk weight", row.risk_weight_percent, "%">> >>
     ELSE <<>>)
    \o
    (IF RwaMismatch(row)
     THEN << <<"RWA mismatch: declared", row.risk_weighted_assets,
               "calculated", calculate_rwa(row)>> >>
     ELSE <<>>)

\* what validate_row appends to self.warnings
RowWarnings(row) ==
    IF row.regulatory_references = <<>>
    THEN << <<"No regulatory references for", row.exposure_class>> >>
    ELSE <<>>

ValidateRow(row) ==
    /\ Len(warnings) + Len(RowWarnings(row)) <= MaxWarnings
    /\ warnings' = warnings \o RowWarnings(row)
    /\ ret' = [op |-> "validate_row", row |-> row, error |-> "none",
               value |-> RowErrors(row)]
    /\ UNCHANGED <<chunks, embeddings, argsortTie, lastSearch, procChunks, errors, sessionRows>>

\* CR1Template.validate_totals
validate_totals(template) ==
    (IF Abs(SumOver(template.rows, "original_exposure_value") - template.total_exposure)
            > Tolerance
     THEN << <<"Total exposure mismatch: declared", template.total_exposure,
               "calculated", SumOver(template.rows, "original_exposure_value")>> >>
     ELSE <<>>)
    \o
    (IF Abs(SumOver(template.rows, "risk_weighted_assets") - template.total_rwa)
            > Tolerance
     THEN << <<"Total RWA mismatch: declared", template.total_rwa,
               "calculated", SumOver(template.rows, "risk_weighted_assets")>> >>
     ELSE <<>>)

\* the row errors prefixed with the index enumerate() gives, not that plus one
PrefixedFromZero(i, row_errors) ==
    [k \in 1..Len(row_errors) |-> <<"Row", i, ":">> \o row_errors[k]]

\* [f"Row {i+1}: {err}" for err in row_errors], i counting from 0
Prefixed(i, row_errors) ==
    [k \in 1..Len(row_errors) |-> <<"Row", i + 1, ":">> \o row_errors[k]]

\* The loop of validate_template over rows[i], rows[i+1], ... (i counting
\* from 0): the errors and the warnings after it.
RECURSIVE ValidateRows(_, _, _, _)
ValidateRows(rows, i, all_errors, ws) ==
    IF i >= Len(rows) THEN [all_errors |-> all_errors, warnings |-> ws]
    ELSE ValidateRows(rows, i + 1,
                      all_errors \o Prefixed(i, RowErrors(rows[i + 1])),
                      ws \o RowWarnings(rows[i + 1]))

\* a report that is valid only when there are no warnings either
ReportBlockedByWarnings(all_errors, ws) ==
    [is_valid |-> Len(all_errors) = 0 /\ Len(ws) = 0, errors |-> all_errors,
     warnings |-> ws]

\* the dict validate_template returns
Report(all_errors, ws) ==
    [is_valid |-> Len(all_errors) = 0, errors |-> all_errors, warnings |-> ws]

ValidateTemplate(template) ==
    \E done \in {ValidateRows(template.rows, 0, <<>>, warnings)} :
        /\ Len(done.warnings) <= MaxWarnings
        /\ warnings' = done.warnings
        /\ ret' = [op |-> "validate_template", template |-> template, error |-> "none",
                   value |-> Report(done.all_errors \o validate_totals(template),
                                    done.warnings)]
        /\ UNCHANGED <<chunks, embeddings, argsortTie, lastSearch, procChunks, errors, sessionRows>>

(***************************************************************************)
(* CR1Validator.generate_audit_trail.  The trail is the sequence of its    *)
(* lines, a line being the tuple of its fixed text and the values          *)
(* formatted into it.                                                      *)
(***************************************************************************)
Reference124 == [article_number |-> 124, source |-> <<"B">>, excerpt |-> <<"m">>]

\* The rows generate_audit_trail is given: the rows of the templates and a
\* row that cites two articles.
AuditRows ==
    TemplateRows \cup { Row("Retail", 250, 75, 187, <<Reference124, Reference122>>) }

\* round(x) of Python's float formatting, x = amount / 100 >= 0: to the
\* nearest whole number, and to the even one of two equally near
RoundHalfEven(amount) ==
    LET whole == amount \div 100
        rest == amount % 100
    IN  IF rest > 50 \/ (rest = 50 /\ whole % 2 = 1) THEN whole + 1 ELSE whole

\* f"£{amount:,.0f}": the sign, then the amount rounded to a whole number
\* (the thousands separators are left out)
Pounds(amount) ==
    <<"£">> \o (IF amount < 0 THEN <<"-">> ELSE <<>>) \o <<RoundHalfEven(Abs(amount))>>

\* the references of a row, last first
ReferenceLinesReversed(references) ==
    IF references = <<>> THEN <<>>
    ELSE [k \in 1..(2 * Len(references)) |->
            IF k % 2 = 1
            THEN <<"    * ", references[Len(references) - (k \div 2)].source>>
            ELSE <<"      ", references[Len(references) + 1 - (k \div 2)].excerpt>>]

\* the two lines of each reference of a row, in the order of the list (the
\* bullet before the source is written as an asterisk)
RECURSIVE ReferenceLines(_)
ReferenceLines(references) ==
    IF references = <<>> THEN <<>>
    ELSE << <<"    * ", Head(references).source>>,
            <<"      ", Head(references).excerpt>> >>
         \o ReferenceLines(Tail(references))

\* what the loop body of generate_audit_trail adds for rows[i], i from 1
AuditSection(i, row) ==
    << <<"Row", i, ":", row.exposure_class>>,
       <<"  Exposure: ">> \o Pounds(row.original_exposure_value),
       <<"  Risk Weight: ", row.risk_weight_percent, "%">>,
       <<"  RWA: ">> \o Pounds(row.risk_weighted_assets),
       <<"">>,
       <<"  Regulatory Basis:">> >>
    \o ReferenceLines(row.regulatory_references)
    \o << <<"">>, <<"-", 70>>, <<"">> >>

AuditHeader == << <<"AUDIT TRAIL - REGULATORY JUSTIFICATION">>, <<"=", 70>>, <<"">> >>

RECURSIVE AuditLoop(_, _, _)
AuditLoop(rows, i, trail) ==
    IF i > Len(rows) THEN trail
    ELSE AuditLoop(rows, i + 1, trail \o AuditSection(i, rows[i]))

generate_audit_trail(rows) == AuditLoop(rows, 1, AuditHeader)

GenerateAuditTrail(rows) ==
    /\ ret' = [op |-> "generate_audit_trail", rows |-> rows, error |-> "none",
               value |-> generate_audit_trail(rows)]
    /\ UNCHANGED <<chunks, embeddings, argsortTie, lastSearch, procChunks, errors,
                   warnings, sessionRows>>

\* The validator after construction: no errors, no warnings.
InitValidator ==
    /\ chunks = <<>>
    /\ embeddings = <<>>
    /\ argsortTie = <<>>
    /\ lastSearch = NoSearch
    /\ procChunks = <<>>
    /\ errors = <<>>
    /\ warnings = <<>>
    /\ ret = NoCall
    /\ sessionRows = <<>>

NextValidator ==
    \/ \E row \in RowInputs : ValidateRow(row)
    \/ \E template \in TemplateInputs : ValidateTemplate(template)
    \/ \E rows \in SeqsUpTo(AuditRows, MaxRows) : GenerateAuditTrail(rows)

SpecValidator == InitValidator /\ [][NextValidator]_vars

(***************************************************************************)
(* CR1Row.calculate_rwa and the RWA check of validate_row in the           *)
(* arithmetic of Python floats (IEEE 754 binary64, round to nearest, ties  *)
(* to even).  A natural number is the sequence of its digits in base       *)
(* 2^15, least significant first and without leading zeros; a float is     *)
(* m * 2^e with m below 2^53 or equal to it.  The amounts are positive and *)
(* in whole units of money here, far from overflow and underflow.          *)
(***************************************************************************)
LimbBits == 15
Base == 32768
MantissaBits == 53

RECURSIVE Digits(_)
Digits(n) == IF n = 0 THEN <<>> ELSE <<n % Base>> \o Digits(n \div Base)

RECURSIVE Trim(_)
Trim(a) ==
    IF a # <<>> /\ a[Len(a)] = 0 THEN Trim(SubSeq(a, 1, Len(a) - 1)) ELSE a

Limb(a, i) == IF i <= Len(a) THEN a[i] ELSE 0

RECURSIVE AddFrom(_, _, _, _)
AddFrom(a, b, i, carry) ==
    IF i > Len(a) /\ i > Len(b) THEN (IF carry = 0 THEN <<>> ELSE <<carry>>)
    ELSE LET x == Limb(a, i) + Limb(b, i) + carry
         IN  <<x % Base>> \o AddFrom(a, b, i + 1, x \div Base)

Add(a, b) == AddFrom(a, b, 1, 0)

\* a - b for a >= b
RECURSIVE SubFrom(_, _, _, _)
SubFrom(a, b, i, borrow) ==
    IF i > Len(a) THEN <<>>
    ELSE LET x == Limb(a, i) - Limb(b, i) - borrow
         IN  <<(x + Base) % Base>> \o SubFrom(a, b, i + 1, IF x < 0 THEN 1 ELSE 0)

Sub(a, b) == Trim(SubFrom(a, b, 1, 0))

\* a * m + carry for a digit m
RECURSIVE MulSmallFrom(_, _, _, _)
MulSmallFrom(a, m, i, carry) ==
    IF i > Len(a) THEN (IF carry = 0 THEN <<>> ELSE <<carry>>)
    ELSE LET x == a[i] * m + carry
         IN  <<x % Base>> \o MulSmallFrom(a, m, i + 1, x \div Base)

RECURSIVE MulFrom(_, _, _)
MulFrom(a, b, j) ==
    IF j > Len(b) THEN <<>>
    ELSE Add(MulSmallFrom(a, b[j], 1, 0), <<0>> \o MulFrom(a, b, j + 1))

Mul(a, b) == Trim(MulFrom(a, b, 1))

\* quotient and remainder of a by m, 0 < m <= Base, from the top digit down
RECURSIVE DivSmallFrom(_, _, _, _)
DivSmallFrom(a, m, i, rem) ==
    IF i = 0 THEN [q |-> <<>>, r |-> rem]
    ELSE LET x == rem * Base + a[i]
             rest == DivSmallFrom(a, m, i - 1, x % m)
         IN  [q |-> rest.q \o <<x \div m>>, r |-> rest.r]

DivSmall(a, m) ==
    LET d == DivSmallFrom(a, m, Len(a), 0) IN [q |-> Trim(d.q), r |-> d.r]

RECURSIVE TwoTo(_)
TwoTo(k) == IF k = 0 THEN 1 ELSE 2 * TwoTo(k - 1)

ShiftLeft(a, k) ==
    IF a = <<>> THEN <<>>
    ELSE [i \in 1..(k \div LimbBits) |-> 0] \o MulSmallFrom(a, TwoTo(k % LimbBits), 1, 0)

ShiftRight(a, k) ==
    DivSmall(SubSeq(a, (k \div LimbBits) + 1, Len(a)), TwoTo(k % LimbBits)).q

RECURSIVE BitLenSmall(_)
BitLenSmall(x) == IF x = 0 THEN 0 ELSE 1 + BitLenSmall(x \div 2)

BitLen(a) ==
    IF a = <<>> THEN 0 ELSE (Len(a) - 1) * LimbBits + BitLenSmall(a[Len(a)])

\* -1, 0 or 1 as a is less than, equal to or greater than b
RECURSIVE CmpFrom(_, _, _)
CmpFrom(a, b, i) ==
    IF i = 0 THEN 0
    ELSE IF a[i] # b[i] THEN (IF a[i] < b[i] THEN 0 - 1 ELSE 1)
    ELSE CmpFrom(a, b, i - 1)

Cmp(a, b) ==
    IF Len(a) # Len(b) THEN (IF Len(a) < Len(b) THEN 0 - 1 ELSE 1)
    ELSE CmpFrom(a, b, Len(a))

Float(m, e) == [m |-> m, e |-> e]

\* The float nearest to x * 2^e, n <= x < n + 1, where x > n exactly if
\* sticky; of two nearest floats the one with the even mantissa.
RoundToFloat(n, e, sticky) ==
    IF BitLen(n) <= MantissaBits THEN Float(n, e)
    ELSE LET s == BitLen(n) - MantissaBits
             q == ShiftRight(n, s)
             c == Cmp(Sub(n, ShiftLeft(q, s)), ShiftLeft(<<1>>, s - 1))
             up == c = 1 \/ (c = 0 /\ (sticky \/ q[1] % 2 = 1))
         IN  Float(IF up THEN Add(q, <<1>>) ELSE q, e + s)

\* n / d for a natural number n and a digit d: the quotient of n * 2^k by d
\* has more than 54 bits, which RoundToFloat rounds
TrueDivide(n, d) ==
    IF n = <<>> THEN Float(<<>>, 0)
    ELSE LET k == MantissaBits + 2 + BitLenSmall(d)
             div == DivSmall(ShiftLeft(n, k), d)
         IN  RoundToFloat(div.q, 0 - k, div.r # 0)

\* x * y
Multiply(x, y) == RoundToFloat(Mul(x.m, y.m), x.e + y.e, FALSE)

\* the mantissas of x and y brought to their smaller exponent
Aligned(x, y) ==
    LET e == Min(x.e, y.e)
    IN  [x |-> ShiftLeft(x.m, x.e - e), y |-> ShiftLeft(y.m, y.e - e), e |-> e]

\* abs(x - y)
AbsDifference(x, y) ==
    LET al == Aligned(x, y)
    IN  RoundToFloat(IF Cmp(al.x, al.y) >= 0 THEN Sub(al.x, al.y) ELSE Sub(al.y, al.x),
                     al.e, FALSE)

\* -1, 0 or 1 as x < y, x == y or x > y
Compare(x, y) == LET al == Aligned(x, y) IN Cmp(Trim(al.x), Trim(al.y))

\* schemas.py:34, self.original_exposure_value * (self.risk_weight_percent / 100)
calculate_rwa_float(exposure, risk_weight_percent) ==
    Multiply(exposure, TrueDivide(Digits(risk_weight_percent), 100))

\* validator.py:24, abs(row.risk_weighted_assets - expected_rwa) > 0.01
RwaMismatchFloat(risk_weighted_assets, expected_rwa) ==
    Compare(AbsDifference(risk_weighted_assets, expected_rwa), TrueDivide(<<1>>, 100)) = 1

\* The exposures: whole amounts from 1 to 3 * 10^15, as natural numbers.
FloatExposures ==
    { Digits(1), Digits(3), Digits(7), Digits(50), Digits(1000), Digits(123457), Digits(50000000),
      Mul(Digits(1000000), Digits(1000000)), Mul(Digits(300000001), Digits(1000000)),
      Mul(Digits(3000000), Digits(1000000000)) }

FloatWeights == { 0, 7, 20, 35, 50, 75, 100, 150, 250, MaxRiskWeight }

\* validate_row on a row with a reference whose RWA is the float nearest to
\* exposure * weight / 100, the exposure and the product being whole numbers
\* below 2^53 times a power of two
ValidateProductRow(exposure, weight) ==
    \E rwa \in {TrueDivide(Mul(exposure, Digits(weight)), 100)} :
    \E expected_rwa \in {calculate_rwa_float(Float(exposure, 0), weight)} :
        /\ ret' = [op |-> "validate_row_float", exposure |-> exposure, weight |-> weight,
                   rwa |-> rwa, expected_rwa |-> expected_rwa, error |-> "none",
                   value |-> IF RwaMismatchFloat(rwa, expected_rwa)
                             THEN << <<"RWA mismatch: declared", rwa,
                                       "calculated", expected_rwa>> >>
                             ELSE <<>>]
        /\ UNCHANGED <<chunks, embeddings, argsortTie, lastSearch, procChunks, errors,
                       warnings, sessionRows>>

NextFloat ==
    \E exposure \in FloatExposures, weight \in FloatWeights :
        ValidateProductRow(exposure, weight)

SpecFloat == InitValidator /\ [][NextFloat]_vars

(***************************************************************************)
(* COREPGenerator (src/generation/llm_generator.py).  The reply of the     *)
(* language model is a sequence of tokens: a code fence (three backticks)  *)
(* with or without the json tag, white space, prose, or a JSON value.  A   *)
(* JSON number is held as its count of millionths, so that 50 stands for   *)
(* 0.00005.                                                                *)
(***************************************************************************)
Million == 1000000
GeneratorTopK == 3
TopReferences == 2
ExcerptLen == 200

ExposureClass ==
    { "Central governments or central banks", "Institutions", "Corporates", "Retail",
      "Exposures secured by mortgages on residential property",
      "Exposures secured by mortgages on commercial immovable property" }

Fence == [t |-> "fence"]
FenceJson == [t |-> "fence json"]
Space == [t |-> " "]
Prose == [t |-> "text"]
Json(data) == [t |-> "json", data |-> data]

JsonObject(class, value, weight) ==
    [exposure_class |-> class, original_exposure_value |-> value,
     risk_weight_percent |-> weight, article_used |-> 122, reasoning |-> <<"r">>]

\* str.strip()
RECURSIVE Strip(_)
Strip(s) ==
    IF s = <<>> THEN s
    ELSE IF Head(s) = Space THEN Strip(Tail(s))
    ELSE IF s[Len(s)] = Space THEN Strip(SubSeq(s, 1, Len(s) - 1))
    ELSE s

\* the test (sep in s), sep being one of the tokens seps
Contains(s, seps) == \E i \in DOMAIN s : s[i] \in seps

\* the index of the first separator in s, Len(s) + 1 where there is none
FirstOf(s, seps) ==
    IF Contains(s, seps)
    THEN CHOOSE i \in DOMAIN s :
            s[i] \in seps /\ \A j \in 1..(i - 1) : s[j] \notin seps
    ELSE Len(s) + 1

\* s.split(sep)[0] and, for s that holds sep, s.split(sep)[1]
SplitPart0(s, seps) == SubSeq(s, 1, FirstOf(s, seps) - 1)
SplitPart1(s, seps) == SplitPart0(SubSeq(s, FirstOf(s, seps) + 1, Len(s)), seps)

\* lines 108-112: the text between the first fence and the next one; a test
\* or split on the bare fence finds the tagged fence as well
ExtractJson(llm_output) ==
    LET stripped == Strip(llm_output)
    IN  IF Contains(stripped, {FenceJson})
        THEN SplitPart0(SplitPart1(stripped, {FenceJson}), {Fence, FenceJson})
        ELSE IF Contains(stripped, {Fence, FenceJson})
        THEN SplitPart0(SplitPart1(stripped, {Fence, FenceJson}), {Fence, FenceJson})
        ELSE stripped

Raise(error) == [error |-> error]
Return(value) == [error |-> "none", value |-> value]

\* json.loads: one JSON value, white space around it allowed
JsonLoads(s) ==
    LET body == Strip(s)
    IN  IF Len(body) = 1 /\ body[1].t = "json" THEN Return(body[1].data)
        ELSE Raise("JSONDecodeError")

\* an excerpt that gets its ellipsis only where the text was cut
ExcerptCutOnly(text) ==
    IF Len(text) > ExcerptLen THEN SubSeq(text, 1, ExcerptLen) \o <<".", ".", ".">>
    ELSE text

\* doc['text'][:200] followed by three full stops
Excerpt(text) == SubSeq(text, 1, Min(ExcerptLen, Len(text))) \o <<".", ".", ".">>

\* lines 121-128: a new list with one reference for each of retrieved_docs[:2]
References(retrieved_docs) ==
    [i \in 1..Min(TopReferences, Len(retrieved_docs)) |->
        [article_number |-> retrieved_docs[i].article_number,
         source |-> retrieved_docs[i].source,
         excerpt |-> Excerpt(retrieved_docs[i].text)]]

\* the row of a reply, its RWA taken from the exposure alone
ParsedRowIgnoringWeight(data, retrieved_docs) ==
    LET exposure == (data.original_exposure_value * Million) \div 10000
    IN  Row(data.exposure_class, exposure, data.risk_weight_percent, exposure,
            References(retrieved_docs))

\* lines 117-137.  The exposure is the number times 1_000_000; a number in
\* millionths times 1_000_000 is in units, and divided by 10000 instead of
\* by 1000000 it is in hundredths.  It is a multiple of 100, so the RWA
\* exposure * (risk_weight / 100) is a whole number of hundredths.
ParsedRow(data, retrieved_docs) ==
    LET exposure == (data.original_exposure_value * Million) \div 10000
        risk_weight == data.risk_weight_percent
        rwa == (exposure * risk_weight) \div 100
    IN  Row(data.exposure_class, exposure, risk_weight, rwa, References(retrieved_docs))

\* COREPGenerator._parse_llm_output: the result, or the exception raised
\* again by the except clause.  The field constraints of CR1Row reject a risk
\* weight outside 0..1250.
_parse_llm_output(llm_output, retrieved_docs) ==
    LET extracted == ExtractJson(llm_output)
        loaded == JsonLoads(extracted)
    IN  IF loaded.error # "none" THEN loaded
        ELSE LET data == loaded.value
             IN  IF {"original_exposure_value", "risk_weight_percent", "exposure_class"}
                        \ (DOMAIN data) # {}
                 THEN Raise("KeyError")
                 ELSE IF data.exposure_class \notin ExposureClass
                 THEN Raise("ValueError")
                 ELSE IF data.risk_weight_percent < 0
                         \/ data.risk_weight_percent > MaxRiskWeight
                 THEN Raise("ValidationError")
                 ELSE Return([cr1_row |-> ParsedRow(data, retrieved_docs),
                              reasoning |-> IF "reasoning" \in DOMAIN data
                                            THEN data.reasoning ELSE <<>>,
                              raw_llm_output |-> extracted])

\* The chunks file of the application: no chunk, or some of three chunks of
\* which one has a text longer than an excerpt.  The query of the application
\* is nearest to the long chunk and has a different similarity to each.
LongText == [i \in 1..(ExcerptLen + 5) |-> "x"]

AppCorpora ==
    LET co == Chunk(<<"c", "o">>, 122, <<"A", "1">>)
        m == Chunk(<<"m">>, 124, <<"B">>)
        long == Chunk(LongText, 125, <<"C">>)
    IN  { <<>>, <<m>>, <<long, co>>, <<m, long, co>> }

\* what the text input holds when the form is submitted
AppQueries == { <<>>, <<"x">> }

\* The replies of the language model: the object alone, in a tagged fence
\* within prose, in a bare fence, and within white space without the optional
\* reasoning; then a risk weight above and below the allowed range, an
\* unknown exposure class, prose alone, an object without a risk weight, and
\* prose before an unfenced object.
LlmOutputs ==
    { << Json(JsonObject("Corporates", 50, 35)) >>,
      << Prose, FenceJson, Space, Json(JsonObject("Retail", 3, MaxRiskWeight)), Space,
         Fence, Prose >>,
      << Fence, Json(JsonObject("Corporates", 0, 0)), Fence >>,
      << Space,
         Json([exposure_class |-> "Retail", original_exposure_value |-> 0 - 1,
               risk_weight_percent |-> 35]),
         Space >>,
      << Json(JsonObject("Corporates", 50, MaxRiskWeight + 1)) >>,
      << Json(JsonObject("Corporates", 50, 0 - 1)) >>,
      << Json(JsonObject("Sovereign", 50, 35)) >>,
      << Prose >>,
      << Json([exposure_class |-> "Retail", original_exposure_value |-> 3]) >>,
      << Prose, Json(JsonObject("Corporates", 50, 35)) >> }

\* what client.chat.completions.create does: it raises, or it returns a reply
LlmResponses ==
    { [status |-> "error"] } \cup { [status |-> "ok", content |-> o] : o \in LlmOutputs }

\* lines 53 and 80-101: the prompt, of which the context and the query vary
_build_prompt(query, context) ==
    <<"REGULATORY CONTEXT:">> \o context \o <<"USER QUERY:">> \o query

\* COREPGenerator.generate_cr1_row: the documents retrieved, the prompt sent
\* and the outcome, a result or the exception that ends the call
generate_cr1_row(query, response) ==
    LET similarities == Similarities(embeddings, query)
        retrieved_docs ==
            Results(chunks, similarities,
                    TopIndices(similarities, argsortTie, GeneratorTopK))
        prompt == _build_prompt(query, format_context(retrieved_docs))
    IN  [retrieved_docs |-> retrieved_docs,
         prompt |-> prompt,
         outcome |-> IF response.status = "error" THEN Raise("APIError")
                     ELSE _parse_llm_output(response.content, retrieved_docs)]

(***************************************************************************)
(* The Streamlit application (src/ui/app.py).  One action is one run of    *)
(* the script, started by the widget the user acted on, from the session   *)
(* state the first run made (lines 20-25).                                 *)
(***************************************************************************)
\* lines 107-108 and 123-127
AppTemplate(session) ==
    LET template_rows == [i \in 1..Len(session) |-> session[i].cr1_row]
    IN  Template(template_rows,
                 SumOver(template_rows, "original_exposure_value"),
                 SumOver(template_rows, "risk_weighted_assets"))

\* CR1Exporter.export_to_excel and export_audit_trail: the file written, as
\* the kind of file and the template whose rows and totals it holds
Export(kind, template) == [file |-> kind, template |-> template]

NoValidation == [validated |-> FALSE, exported |-> "none"]

\* Lines 78-176, the script from `if st.session_state.rows:` on, with the
\* rows as the earlier part left them: nothing but a hint for no rows, else
\* the template, its validation by the session's validator and, where its
\* button was pressed, an export.
RestOfRun(session, call, button) ==
    /\ sessionRows' = session
    /\ IF session = <<>>
       THEN /\ ret' = call @@ NoValidation
            /\ warnings' = warnings
       ELSE \E template \in {AppTemplate(session)} :
            \E done \in {ValidateRows(template.rows, 0, <<>>, warnings)} :
               /\ Len(done.warnings) <= MaxWarnings
               /\ warnings' = done.warnings
               /\ ret' = call @@
                     [validated |-> TRUE,
                      template |-> template,
                      validation |-> Report(done.all_errors \o validate_totals(template),
                                            done.warnings),
                      exported |-> button,
                      file |-> IF button = "none" THEN <<>> ELSE Export(button, template)]

NoGeneration ==
    [response |-> "none", retrieved_docs |-> <<>>, prompt |-> <<>>, result |-> "none"]

\* what a submission records of the call of generate_cr1_row
Generation(query, response, gen) ==
    [op |-> "submit", query |-> query, response |-> response,
     retrieved_docs |-> gen.retrieved_docs, prompt |-> gen.prompt,
     error |-> gen.outcome.error,
     result |-> IF gen.outcome.error = "none" THEN gen.outcome.value ELSE "none"]

\* a submission that puts the new result before the earlier ones
SubmitPrepending(query, response) ==
    /\ query # <<>>
    /\ \E gen \in {generate_cr1_row(query, response)} :
          /\ lastSearch' = [called |-> TRUE, query |-> query, top_k |-> GeneratorTopK,
                            value |-> gen.retrieved_docs]
          /\ IF gen.outcome.error = "none"
             THEN /\ Len(sessionRows) < MaxRows
                  /\ RestOfRun(<<gen.outcome.value>> \o sessionRows,
                               Generation(query, response, gen), "none")
             ELSE RestOfRun(sessionRows, Generation(query, response, gen), "none")
    /\ UNCHANGED <<chunks, embeddings, argsortTie, procChunks, errors>>

\* Lines 65-75 and the rest of the run: "Add Exposure" pressed with a query.
\* The result is appended; an exception of generate_cr1_row is caught and
\* shown, and the rows stay as they are.
Submit(query, response) ==
    /\ query # <<>>
    /\ \E gen \in {generate_cr1_row(query, response)} :
          /\ lastSearch' = [called |-> TRUE, query |-> query, top_k |-> GeneratorTopK,
                            value |-> gen.retrieved_docs]
          /\ IF gen.outcome.error = "none"
             THEN /\ Len(sessionRows) < MaxRows
                  /\ RestOfRun(Append(sessionRows, gen.outcome.value),
                               Generation(query, response, gen), "none")
             ELSE RestOfRun(sessionRows, Generation(query, response, gen), "none")
    /\ UNCHANGED <<chunks, embeddings, argsortTie, procChunks, errors>>

\* line 65: "Add Exposure" pressed while the text input is empty
SubmitWithoutQuery ==
    /\ RestOfRun(sessionRows,
                 [op |-> "submit", query |-> <<>>, error |-> "none"] @@ NoGeneration,
                 "none")
    /\ UNCHANGED <<chunks, embeddings, argsortTie, lastSearch, procChunks, errors>>

\* lines 44-46: "Clear All Entries" pressed; st.rerun() starts the script
\* again, now without rows
ClearAllEntries ==
    /\ RestOfRun(<<>>, [op |-> "clear", query |-> <<>>, error |-> "none"] @@ NoGeneration,
                 "none")
    /\ UNCHANGED <<chunks, embeddings, argsortTie, lastSearch, procChunks, errors>>

\* lines 149-176: an export button pressed; the buttons are there only while
\* there are rows
ExportPressed(button) ==
    /\ sessionRows # <<>>
    /\ RestOfRun(sessionRows,
                 [op |-> button, query |-> <<>>, error |-> "none"] @@ NoGeneration,
                 button)
    /\ UNCHANGED <<chunks, embeddings, argsortTie, lastSearch, procChunks, errors>>

\* The session after the first run of the script: the generator with its
\* retriever, a validator, and no rows.
InitApp ==
    /\ chunks \in AppCorpora
    /\ embeddings = [i \in 1..Len(chunks) |-> Encode(chunks[i].text)]
    /\ argsortTie \in Orderings(Len(chunks))
    /\ lastSearch = NoSearch
    /\ procChunks = <<>>
    /\ errors = <<>>
    /\ warnings = <<>>
    /\ ret = NoCall
    /\ sessionRows = <<>>

NextApp ==
    \/ \E query \in AppQueries, response \in LlmResponses : Submit(query, response)
    \/ SubmitWithoutQuery
    \/ ClearAllEntries
    \/ \E button \in {"export_to_excel", "export_audit_trail"} : ExportPressed(button)

SpecApp == InitApp /\ [][NextApp]_vars

(***************************************************************************)
(* Properties of the validator.                                            *)
(***************************************************************************)
\* the three rules of a row, as the amounts state them
ExposureInvalid(row) == row.original_exposure_value <= 0

WeightInvalid(row) ==
    row.risk_weight_percent < 0 \/ row.risk_weight_percent > MaxRiskWeight

\* |rwa - exposure * weight / 100| > 0.01, both sides taken a hundredfold
RwaOff(row) ==
    Abs(100 * row.risk_weighted_assets
          - row.original_exposure_value * row.risk_weight_percent) > 100 * Tolerance

\* the place of a row error among the three rules
RuleOf(err) ==
    CASE err[1] = "Invalid exposure value" -> 1
      [] err[1] = "Invalid risk weight"    -> 2
      [] err[1] = "RWA mismatch: declared" -> 3
      [] OTHER                             -> 0

HasRule(errs, n) == \E k \in DOMAIN errs : RuleOf(errs[k]) = n

RECURSIVE RowErrorsUpTo(_, _)
RowErrorsUpTo(rows, n) ==
    IF n = 0 THEN <<>>
    ELSE RowErrorsUpTo(rows, n - 1)
           \o [k \in 1..Len(RowErrors(rows[n])) |->
                  <<"Row", n, ":">> \o RowErrors(rows[n])[k]]

TotalExposureOff(template) ==
    Abs(template.total_exposure - SumOver(template.rows, "original_exposure_value"))
        > Tolerance

TotalRwaOff(template) ==
    Abs(template.total_rwa - SumOver(template.rows, "risk_weighted_assets")) > Tolerance

\* C5: the errors of validate_template are the validate_row errors of row 1,
\* row 2, ... each after "Row i: ", then an error if the declared total
\* exposure is further than 0.01 from the sum over the rows, then an error if
\* the declared total RWA is; a total that is off is among the errors.
C5_ValidateTemplateErrors ==
    ret.op = "validate_template" =>
        LET template == ret.template
            all == ret.value.errors
            ofRows == RowErrorsUpTo(template.rows, Len(template.rows))
            ofTotals == SubSeq(all, Len(ofRows) + 1, Len(all))
        IN  /\ Len(all) >= Len(ofRows)
            /\ SubSeq(all, 1, Len(ofRows)) = ofRows
            /\ [k \in DOMAIN ofTotals |-> ofTotals[k][1]] =
                   (IF TotalExposureOff(template)
                    THEN <<"Total exposure mismatch: declared">> ELSE <<>>)
                   \o (IF TotalRwaOff(template)
                       THEN <<"Total RWA mismatch: declared">> ELSE <<>>)
            /\ (TotalExposureOff(template) \/ TotalRwaOff(template)) => ~ret.value.is_valid

\* a template of two rows, the first without error and the second with three,
\* both of whose totals are off: five errors
C5_Witness ==
    /\ ret.op = "validate_template"
    /\ Len(ret.template.rows) = 2
    /\ RowErrors(ret.template.rows[1]) = <<>>
    /\ Len(RowErrors(ret.template.rows[2])) = 3
    /\ TotalExposureOff(ret.template) /\ TotalRwaOff(ret.template)
    /\ Len(ret.value.errors) = 5

Uncited(rows) == {i \in DOMAIN rows : rows[i].regulatory_references = <<>>}

IsPrefix(s, t) == Len(s) <= Len(t) /\ SubSeq(t, 1, Len(s)) = s

\* a report is valid exactly when it has no errors, which is exactly when no
\* row breaks a rule and no total is off: the references and the warnings
\* have no part in it
C6_ValidIffNoErrors ==
    ret.op = "validate_template" =>
        /\ ret.value.is_valid <=> ret.value.errors = <<>>
        /\ ret.value.is_valid <=>
              /\ \A i \in DOMAIN ret.template.rows :
                    /\ ~ExposureInvalid(ret.template.rows[i])
                    /\ ~WeightInvalid(ret.template.rows[i])
                    /\ ~RwaOff(ret.template.rows[i])
              /\ ~TotalExposureOff(ret.template)
              /\ ~TotalRwaOff(ret.template)

\* a call adds one warning for each row it is given that cites nothing
C6_UncitedRowWarns ==
    /\ ret'.op = "validate_row" =>
          /\ IsPrefix(warnings, warnings')
          /\ Len(warnings') = Len(warnings)
                + (IF ret'.row.regulatory_references = <<>> THEN 1 ELSE 0)
    /\ ret'.op = "validate_template" =>
          /\ IsPrefix(warnings, warnings')
          /\ Len(warnings') = Len(warnings) + Cardinality(Uncited(ret'.template.rows))

\* C6: is_valid holds exactly when the errors of the report are empty; a row
\* without references adds a warning and no error; warnings have no part in
\* is_valid.
C6_WarningsDoNotBlock ==
    /\ []C6_ValidIffNoErrors
    /\ [][C6_UncitedRowWarns]_vars

\* a valid report that carries a warning, for a template with a row that
\* cites nothing
C6_Witness ==
    /\ ret.op = "validate_template"
    /\ ret.value.is_valid
    /\ Uncited(ret.template.rows) # {}
    /\ ret.value.warnings # <<>>

\* the lines a row takes in the trail: six, two for each reference, and the
\* three that close the section
SectionLen(row) == 9 + 2 * Len(row.regulatory_references)

\* the number of lines before the section of row i: the header and the
\* sections of the rows before it
RECURSIVE SectionStart(_, _)
SectionStart(rows, i) ==
    IF i = 1 THEN Len(AuditHeader)
    ELSE SectionStart(rows, i - 1) + SectionLen(rows[i - 1])

AuditTrailSections ==
    ret.op = "generate_audit_trail" =>
        LET rows == ret.rows
            trail == ret.value
            n == Len(rows)
        IN  /\ ret.error = "none"
            /\ Len(trail) = IF n = 0 THEN Len(AuditHeader)
                            ELSE SectionStart(rows, n) + SectionLen(rows[n])
            /\ \A i \in 1..n :
                  LET at == SectionStart(rows, i)
                      refs == rows[i].regulatory_references
                  IN  /\ trail[at + 1] = <<"Row", i, ":", rows[i].exposure_class>>
                      /\ trail[at + 2] =
                             <<"  Exposure: ">> \o Pounds(rows[i].original_exposure_value)
                      /\ trail[at + 3] =
                             <<"  Risk Weight: ", rows[i].risk_weight_percent, "%">>
                      /\ trail[at + 4] =
                             <<"  RWA: ">> \o Pounds(rows[i].risk_weighted_assets)
                      /\ \A k \in DOMAIN refs :
                            /\ trail[at + 5 + 2 * k][2] = refs[k].source
                            /\ trail[at + 6 + 2 * k][2] = refs[k].excerpt

\* C11: generate_audit_trail gives one section per row, in the order of the
\* rows, with the row's exposure class, exposure, risk weight and RWA and then
\* the source and excerpt of each of its references in the order of the list;
\* it does so without error whatever rules the row breaks, and it leaves the
\* validator's errors and warnings as they were.
C11_AuditTrail ==
    /\ []AuditTrailSections
    /\ [][ret'.op = "generate_audit_trail" => (warnings' = warnings /\ errors' = errors)]_vars

\* a trail of two rows made after a validation left a warning: the first
\* breaks all three rules and cites nothing, the second cites two articles
C11_Witness ==
    /\ ret.op = "generate_audit_trail"
    /\ Len(ret.rows) = 2
    /\ ExposureInvalid(ret.rows[1]) /\ WeightInvalid(ret.rows[1]) /\ RwaOff(ret.rows[1])
    /\ ret.rows[1].regulatory_references = <<>>
    /\ Len(ret.rows[2].regulatory_references) = 2
    /\ warnings # <<>>

\* the warnings of the rows of a template alone: one for each row without
\* references, in the order of the rows
RECURSIVE WarningsOfRows(_)
WarningsOfRows(rows) ==
    IF rows = <<>> THEN <<>>
    ELSE RowWarnings(Head(rows)) \o WarningsOfRows(Tail(rows))

\* C13: validation is idempotent on a validator: the warnings in the report
\* of validate_template(t) are exactly one per row of t without references,
\* none from earlier calls, and validating the same template again gives the
\* same is_valid, errors and warnings.
C13_ValidationIdempotent ==
    /\ [](ret.op = "validate_template" =>
            ret.value.warnings = WarningsOfRows(ret.template.rows))
    /\ [][(/\ ret.op = "validate_template"
           /\ ret'.op = "validate_template"
           /\ ret'.template = ret.template)
          => (/\ ret'.value.is_valid = ret.value.is_valid
              /\ ret'.value.errors = ret.value.errors
              /\ ret'.value.warnings = ret.value.warnings)]_vars

(***************************************************************************)
(* Properties of the generator and of the application.                     *)
(***************************************************************************)
IsAppRun == ret.op \in {"submit", "clear", "export_to_excel", "export_audit_trail"}

Added == ret.op = "submit" /\ ret.query # <<>> /\ ret.error = "none"

\* C14: the rows of the session start empty; a successful submission of a
\* non-empty query appends exactly one entry at the end, a failing one or one
\* with an empty query leaves the rows as they are, "Clear All Entries"
\* empties them, and validation and export never change them.
C14_SessionRows ==
    /\ sessionRows = <<>>
    /\ [][/\ Added' => sessionRows' = Append(sessionRows, ret'.result)
          /\ (ret'.op = "submit" /\ ~Added') => sessionRows' = sessionRows
          /\ ret'.op = "clear" => sessionRows' = <<>>
          /\ ret'.op \in {"export_to_excel", "export_audit_trail"} =>
                (ret'.exported = ret'.op /\ sessionRows' = sessionRows)
          /\ (IsAppRun' /\ sessionRows' # <<>>) => ret'.validated]_vars

\* a submission that failed after two that succeeded with different rows
C14_Witness ==
    /\ ret.op = "submit" /\ ret.query # <<>> /\ ret.error # "none"
    /\ Len(sessionRows) = 2
    /\ sessionRows[1] # sessionRows[2]

\* C15: a row from _parse_llm_output has min(2, number of retrieved
\* documents) references, taken from the highest-ranked documents in their
\* order, each with the document's article number and source and, as excerpt,
\* the first 200 characters of its text followed by "...": at most 203
\* characters, the dots there also for a shorter text.
C15_References ==
    Added =>
        LET refs == ret.result.cr1_row.regulatory_references
            docs == ret.retrieved_docs
        IN  /\ Len(refs) = Min(2, Len(docs))
            /\ \A i \in DOMAIN refs :
                  /\ refs[i].article_number = docs[i].article_number
                  /\ refs[i].source = docs[i].source
                  /\ Len(refs[i].excerpt) = Min(200, Len(docs[i].text)) + 3
                  /\ \A k \in 1..Min(200, Len(docs[i].text)) :
                        refs[i].excerpt[k] = docs[i].text[k]
                  /\ \A k \in 1..3 : refs[i].excerpt[Len(refs[i].excerpt) - 3 + k] = "."
            /\ \A i, j \in DOMAIN docs :
                  i < j => docs[i].relevance_score >= docs[j].relevance_score

\* three documents retrieved and a row with two references, the first to a
\* text longer than 200 characters and the second to a shorter one
C15_Witness ==
    /\ Added
    /\ Len(ret.retrieved_docs) = 3
    /\ Len(ret.retrieved_docs[1].text) > 200
    /\ Len(ret.retrieved_docs[2].text) < 200
    /\ Len(ret.result.cr1_row.regulatory_references) = 2
    /\ Len(ret.result.cr1_row.regulatory_references[1].excerpt) = 203

\* C16: for a template the application builds from the rows of the session,
\* validate_template reports no mismatch of a total and no mismatch of an
\* RWA; its only errors are 'Invalid exposure value' for rows whose exposure
\* is not positive; and no row has a risk weight outside 0..1250, a reply
\* with such a weight giving no row.
C16_AppTemplateErrors ==
    /\ (IsAppRun /\ sessionRows # <<>>) =>
          /\ ret.template.rows = [i \in 1..Len(sessionRows) |-> sessionRows[i].cr1_row]
          /\ \A k \in DOMAIN ret.validation.errors :
                LET e == ret.validation.errors[k]
                IN  /\ e[1] = "Row"
                    /\ e[4] = "Invalid exposure value"
                    /\ ret.template.rows[e[2]].original_exposure_value <= 0
          /\ \A i \in DOMAIN ret.template.rows :
                /\ ~RwaOff(ret.template.rows[i])
                /\ ExposureInvalid(ret.template.rows[i]) =>
                      \E k \in DOMAIN ret.validation.errors :
                          ret.validation.errors[k][2] = i
          /\ ~TotalExposureOff(ret.template) /\ ~TotalRwaOff(ret.template)
    /\ \A i \in DOMAIN sessionRows : ~WeightInvalid(sessionRows[i].cr1_row)
    /\ (ret.op = "submit" /\ ret.query # <<>> /\ ret.response.status = "ok") =>
          LET loaded == JsonLoads(ExtractJson(ret.response.content))
          IN  (/\ loaded.error = "none"
               /\ "risk_weight_percent" \in DOMAIN loaded.value
               /\ WeightInvalid(loaded.value))
                 => ret.error # "none"

\* a reply with a risk weight of 1251 rejected, the session holding a row of
\* exposure zero, reported, and a row of risk weight 1250
C16_Witness ==
    /\ ret.op = "submit" /\ ret.error = "ValidationError"
    /\ Len(sessionRows) = 2
    /\ Len(ret.validation.errors) = 1
    /\ \E i \in DOMAIN sessionRows :
          sessionRows[i].cr1_row.risk_weight_percent = MaxRiskWeight
    /\ \E i \in DOMAIN sessionRows : sessionRows[i].cr1_row.original_exposure_value = 0

\* C12: calculate_rwa returns exposure * weight / 100 exactly, so that a row
\* whose RWA was set to that product (here: to the float nearest to it) gets
\* no RWA-mismatch error.
C12_CalculateRwaExact ==
    ret.op = "validate_row_float" =>
        /\ Compare(ret.expected_rwa, ret.rwa) = 0
        /\ ret.value = <<>>

(***************************************************************************)
(* Properties of the document processor.                                   *)
(***************************************************************************)
IsWhole(doc) == {"content", "article_number", "source"} \subseteq DOMAIN doc

\* what chunk_documents returned, when whole entries only were given: one
\* chunk per entry, in order, of the entry's content, article_number and
\* source and nothing else
C9_OneChunkPerEntry ==
    (ret.op = "chunk_documents" /\ \A i \in DOMAIN ret.corpus : IsWhole(ret.corpus[i])) =>
        /\ ret.error = "none"
        /\ procChunks = ret.value
        /\ Len(ret.value) = Len(ret.corpus)
        /\ \A i \in DOMAIN ret.corpus :
              /\ DOMAIN ret.value[i] = {"text", "metadata"}
              /\ ret.value[i].text = ret.corpus[i].content
              /\ DOMAIN ret.value[i].metadata = {"article_number", "source"}
              /\ ret.value[i].metadata.article_number = ret.corpus[i].article_number
              /\ ret.value[i].metadata.source = ret.corpus[i].source

C9_BrokenEntryFails ==
    (ret.op = "chunk_documents" /\ \E i \in DOMAIN ret.corpus : ~IsWhole(ret.corpus[i])) =>
        ret.error # "none"

\* C9: chunk_documents gives one chunk per corpus entry, in corpus order, of
\* the entry's content, article_number and source, whatever other fields the
\* entry has; given an entry that lacks one of the three it fails, and the
\* chunks the processor holds are the ones it held before the call.
C9_ChunkDocuments ==
    /\ [](C9_OneChunkPerEntry /\ C9_BrokenEntryFails)
    /\ [][(ret'.op = "chunk_documents" /\ ret'.error # "none")
             => procChunks' = procChunks]_vars

\* a call has failed on its second entry, after a chunk was built for its
\* first, while the processor held the chunks of an earlier call, one of
\* them built from an entry with a further field
C9_Witness ==
    /\ ret.op = "chunk_documents" /\ ret.error # "none"
    /\ Len(ret.corpus) = 2 /\ IsWhole(ret.corpus[1])
    /\ procChunks # <<>>
    /\ procChunks[1].text = <<"m">>

(***************************************************************************)
(* Properties of the retriever.                                            *)
(***************************************************************************)
IsSearch == ret.op = "search"

\* the similarity of chunk i to the query of the last call
ScoreOf(i) == CosineSimilarity(Encode(ret.query), Encode(chunks[i].text))

NotReturned == (1..Len(chunks)) \ Range(ret.top_indices)

\* C1: on a non-empty corpus and with top_k >= 1, search returns exactly
\* min(top_k, corpus size) results without error, each a distinct chunk of the
\* corpus with its similarity as relevance_score, in non-increasing order of
\* relevance_score, and no chunk left out scores higher than a returned one.
C1_SearchReturnsTopK ==
    (IsSearch /\ Len(chunks) >= 1 /\ ret.top_k >= 1) =>
        /\ ret.error = "none"
        /\ Len(ret.value) = Min(ret.top_k, Len(chunks))
        /\ Len(ret.top_indices) = Len(ret.value)
        /\ \A i \in DOMAIN ret.value :
              /\ ret.top_indices[i] \in 1..Len(chunks)
              /\ ret.value[i] =
                     [text |-> chunks[ret.top_indices[i]].text,
                      article_number |-> chunks[ret.top_indices[i]].metadata.article_number,
                      source |-> chunks[ret.top_indices[i]].metadata.source,
                      relevance_score |-> ScoreOf(ret.top_indices[i])]
        /\ \A i, j \in DOMAIN ret.value :
              /\ i # j => ret.top_indices[i] # ret.top_indices[j]
              /\ i < j => ret.value[i].relevance_score >= ret.value[j].relevance_score
        /\ \A m \in NotReturned : \A i \in DOMAIN ret.value :
              ScoreOf(m) <= ret.value[i].relevance_score

\* a search of three chunks for the best two, which leaves out a chunk that
\* scores strictly lower than both
C1_Witness ==
    /\ IsSearch /\ Len(chunks) = 3 /\ ret.top_k = 2
    /\ Len(ret.value) = 2
    /\ \E m \in NotReturned : ScoreOf(m) < ret.value[2].relevance_score

\* C2: search with top_k <= 0 fails with InvalidArgument and returns nothing.
C2_NonPositiveTopKIsRejected ==
    (IsSearch /\ ret.top_k <= 0) =>
        (ret.error = "InvalidArgument" /\ ret.value = <<>>)

\* C3: search with no chunk loaded fails with EmptyCorpus.
C3_EmptyCorpusIsSignalled ==
    (IsSearch /\ Len(chunks) = 0) => ret.error = "EmptyCorpus"

\* C7: chunks of equal similarity are ranked in corpus order, and where the
\* cut falls among them the earlier-loaded ones are returned.
C7_TiesInCorpusOrder ==
    (IsSearch /\ Len(chunks) >= 1 /\ ret.top_k >= 1) =>
        /\ \A i, j \in DOMAIN ret.top_indices :
              (i < j /\ ScoreOf(ret.top_indices[i]) = ScoreOf(ret.top_indices[j]))
                  => ret.top_indices[i] < ret.top_indices[j]
        /\ \A m \in NotReturned : \A i \in DOMAIN ret.top_indices :
              ScoreOf(m) = ScoreOf(ret.top_indices[i]) => ret.top_indices[i] < m

\* C8: no call changes the loaded chunks or their embeddings, and a search
\* with the query and top_k of the search before it returns the same results.
C8_SearchHasNoSideEffects ==
    [][/\ chunks' = chunks
       /\ embeddings' = embeddings
       /\ (/\ lastSearch.called /\ lastSearch'.called
           /\ lastSearch'.query = lastSearch.query
           /\ lastSearch'.top_k = lastSearch.top_k)
              => lastSearch'.value = lastSearch.value]_vars

\* a search of a corpus of several chunks has returned several results and
\* format_context has been applied to them
C8_Witness ==
    /\ ret.op = "format_context" /\ lastSearch.called
    /\ Len(chunks) >= 2 /\ Len(lastSearch.value) >= 2
    /\ embeddings = [i \in 1..Len(chunks) |-> Encode(chunks[i].text)]

\* the characters a block takes: "[", the source, "]", a newline, the text and
\* a newline
BlockLen(result) == Len(result.source) + Len(result.text) + 4

\* where block i begins in the context: after the blocks before it and the
\* one newline that separates each from the next
RECURSIVE BlockStart(_, _)
BlockStart(results, i) ==
    IF i = 1 THEN 0
    ELSE BlockStart(results, i - 1) + BlockLen(results[i - 1]) + 1

Count(s, c) == Cardinality({i \in DOMAIN s : s[i] = c})

\* C10: format_context emits one block per result, in input order: the source
\* label, then the whole text, each ended by a newline; an empty line stands
\* between consecutive blocks; no result gives the empty string.
C10_FormatContextBlocks ==
    ret.op = "format_context" =>
        LET results == ret.results
            out == ret.value
            n == Len(results)
        IN  /\ n = 0 => out = <<>>
            /\ n > 0 => Len(out) = BlockStart(results, n) + BlockLen(results[n])
            /\ Count(out, "[") = n
            /\ \A i \in 1..n :
                  LET at == BlockStart(results, i)
                      src == results[i].source
                      text == results[i].text
                  IN  /\ out[at + 1] = "["
                      /\ SubSeq(out, at + 2, at + 1 + Len(src)) = src
                      /\ out[at + 2 + Len(src)] = "]"
                      /\ out[at + 3 + Len(src)] = "\n"
                      /\ SubSeq(out, at + 4 + Len(src), at + 3 + Len(src) + Len(text)) = text
                      /\ out[at + BlockLen(results[i])] = "\n"
                      /\ i < n => out[at + BlockLen(results[i]) + 1] = "\n"

\* a context of two blocks, the first of a text of more than one character
C10_Witness ==
    /\ ret.op = "format_context"
    /\ Len(ret.results) >= 2
    /\ Len(ret.results[1].text) > 1
    /\ ret.value # <<>>

====
